---- MODULE Spec2Model ----
(***************************************************************************)
(* pg_happy: a test client for PostgreSQL high-availability setups.        *)
(*                                                                         *)
(*   store  - the local JSON store (Store.Append / Store.Next / Err)       *)
(*   pg     - the remote side (InsertData, GetNextId, TruncateTables,      *)
(*            CopyStore, Compare)                                          *)
(*   cmd    - the load loop (loadDB) and the comparison (compareDB)        *)
(*                                                                         *)
(* The local file is a sequence of tokens.  json.Encoder writes one record *)
(* as  { "Id":n "Ts":t } \n ,  five tokens; json.Decoder reads the token   *)
(* stream back.  A token is a pair <<kind, value>>.                        *)
(***************************************************************************)
EXTENDS Integers, Sequences, FiniteSets, TLC

\* ------------------------------------------------------------------ bounds
MaxId == 3          \* the load loop stops generating beyond this identifier
MaxTs == 1          \* wall-clock readings are drawn from 1..MaxTs
MaxLog == 3         \* the local file holds at most this many appended entries
MaxConns == 2       \* connections one load run may open
MaxRuns == 3        \* commands (load / compare) run one after the other
StoreIds == 2       \* identifiers used by the store harness
StoreTs == 2        \* wall-clock readings used by the store harness
StoreLen == 3       \* entries written by the store harness

VARIABLES
    file,        \* the local store file: a sequence of tokens
    st,          \* the Store handle of the running command (store.Store)
    yielded,     \* the rows the row source has handed to its consumer
    entries,     \* what each write to the file was (history, for the store harness)
    phase,       \* store harness: "write" | "read" | "done" | "off"
    stamps,      \* table happy.stamps: rows [id, ts], id is the primary key
    cmpTab,      \* table happy.store (unlogged): rows [id, ts], id is the primary key
    cmd,         \* the command that runs: "none" | "load" | "compare"
    pc,          \* where the running command is
    result,      \* what the command returned: "none" (it runs), "ok" (nil) or the error
    Truncate,    \* option --truncate of load
    NoLoad,      \* option --no-load of compare
    id,          \* loadDB: id
    ts,          \* loadDB: ts of the current cycle
    connected,   \* loadDB: connected
    db,          \* loadDB / compareDB: the connection in use (index in conns, 0: nil)
    conns,       \* every connection opened by the running command
    sig,         \* a signal waits in sigC
    sigAt,       \* where the loop stood when the signal was delivered (history)
    baseCancelled, \* baseCancel() has been called
    diff,        \* compareDB: the rows Compare returned
    runs,        \* commands started so far
    healthy,     \* the remote store is reachable and takes what it is sent, from now on
    logStart,    \* length of the file when the running command opened it
    stamps0,     \* happy.stamps when the running command started
    cmpTab0,     \* happy.store when the running command started
    attempted,   \* identifiers the running load handed to InsertData
    uncommitted  \* identifiers the last load handed to InsertData, which returned an error

vars == <<file, st, yielded, entries, phase, stamps, cmpTab, cmd, pc, result,
          Truncate, NoLoad, id, ts, connected, db, conns, sig, sigAt, baseCancelled,
          diff, runs, healthy, logStart, stamps0, cmpTab0, attempted, uncommitted>>

storeVars == <<file, st, yielded, entries, phase>>
remoteVars == <<stamps, cmpTab>>
procVars == <<cmd, pc, result, Truncate, NoLoad, id, ts, connected, db, conns,
              sig, sigAt, baseCancelled, diff, runs, healthy, logStart, stamps0, cmpTab0,
              attempted, uncommitted>>

\* ------------------------------------------------------------ store: data
\* time.Time: the wall-clock instant (with its offset) and whether the value
\* carries a monotonic clock reading.  time.Now() carries one; a decoded value
\* does not.
Now(w) == [wall |-> w, mono |-> 1]

ZeroTime == [wall |-> 0, mono |-> 0]

\* store.StoreData{Id, Ts}
StoreData(i, t) == [Id |-> i, Ts |-> t]

ZeroData == StoreData(0, ZeroTime)

\* The zero value of store.Store as NewStore returns it: no decoder yet
\* (pos = 0: nothing read), no error.
NilError == [err |-> "nil", count |-> 0]

NewHandle == [count |-> 0, decodeError |-> NilError, decodedData |-> ZeroData,
              pos |-> 0, decErr |-> "nil"]

\* json.Encoder.Encode(StoreData): the object and a newline.  Ts is written by
\* time.Time.MarshalJSON (RFC 3339 with nanoseconds): the instant, without the
\* monotonic reading.
Encode(data) ==
    << <<"lb", 0>>, <<"id", data.Id>>, <<"ts", data.Ts.wall>>, <<"rb", 0>>, <<"nl", 0>> >>

Prefix(s, n) == SubSeq(s, 1, n)

\* Variant: O_TRUNC is never set.
NewStore_Keep(f, truncate) == f

\* NewStore(path, truncate): the file as it is after os.OpenFile.
NewStore(f, truncate) == IF truncate THEN <<>> ELSE f

\* Variant: no seek to the end, the write lands at the start of the file.
StoreAppend_NoSeek(f, i, t, n) ==
    Prefix(Encode(StoreData(i, t)), n) \o SubSeq(f, n + 1, Len(f))

\* Store.Append(id, ts): Seek(0, SEEK_END), then the encoding is written at
\* the end of the file.  n: the tokens the write put there; fewer than the
\* whole encoding means the write failed and Append returned an error.
StoreAppend(f, i, t, n) == f \o Prefix(Encode(StoreData(i, t)), n)

\* Variant: the error of the write is not looked at.
AppendFailed_Ignored(i, t, n) == FALSE

AppendFailed(i, t, n) == n < Len(Encode(StoreData(i, t)))

\* ---------------------------------------------------------- store: decoder
\* json.Decoder.Decode on the tokens after position p (p tokens consumed).
\* Result: res = "ok" (a value, decoded into rec), "eof" (io.EOF: only white
\* space was left), "unexpected" (io.ErrUnexpectedEOF: the input ended inside
\* a value), "syntax" (a SyntaxError).
RECURSIVE ScanObject(_, _, _)
ScanObject(f, p, rec) ==
    IF p > Len(f) THEN [res |-> "unexpected", rec |-> rec, pos |-> Len(f)]
    ELSE CASE f[p][1] = "id" -> ScanObject(f, p + 1, [rec EXCEPT !.Id = f[p][2]])
           [] f[p][1] = "ts" ->
                ScanObject(f, p + 1, [rec EXCEPT !.Ts = [wall |-> f[p][2], mono |-> 0]])
           [] f[p][1] = "nl" -> ScanObject(f, p + 1, rec)
           [] f[p][1] = "rb" -> [res |-> "ok", rec |-> rec, pos |-> p]
           [] OTHER -> [res |-> "syntax", rec |-> rec, pos |-> p]

RECURSIVE Decode(_, _)
Decode(f, p) ==
    IF p >= Len(f) THEN [res |-> "eof", rec |-> ZeroData, pos |-> Len(f)]
    ELSE CASE f[p + 1][1] = "nl" -> Decode(f, p + 1)
           [] f[p + 1][1] = "lb" -> ScanObject(f, p + 2, ZeroData)
           [] OTHER -> [res |-> "syntax", rec |-> ZeroData, pos |-> p + 1]

\* Store.Next: the handle after the call, and what it returned.  An error of
\* the decoder is sticky (Decoder.err), so a later call returns it again.
StoreNextDecode(s, f) ==
    IF s.decErr # "nil" THEN [res |-> s.decErr, rec |-> ZeroData, pos |-> s.pos]
    ELSE Decode(f, s.pos)

\* Variant: any error of the decoder ends the replay like io.EOF.
StoreNext_EofOnError(s, f) ==
    LET d == StoreNextDecode(s, f) IN
    IF d.res # "ok"
    THEN [ok |-> FALSE, st |-> [s EXCEPT !.decErr = d.res, !.pos = d.pos]]
    ELSE [ok |-> TRUE,
          st |-> [s EXCEPT !.decodedData = d.rec, !.count = s.count + 1, !.pos = d.pos]]

StoreNext(s, f) ==
    LET d == StoreNextDecode(s, f) IN
    IF d.res # "ok"
    THEN [ok |-> FALSE,
          st |-> [s EXCEPT !.decErr = d.res, !.pos = d.pos,
                           !.decodeError = IF d.res # "eof"
                                           THEN [err |-> d.res, count |-> s.count]
                                           ELSE s.decodeError]]
    ELSE [ok |-> TRUE,
          st |-> [s EXCEPT !.decodedData = d.rec, !.count = s.count + 1, !.pos = d.pos]]

\* Store.Values: the row of the record Next found, id then timestamp.
Values(s) == <<s.decodedData.Id, s.decodedData.Ts>>

\* Store.Err
Err(s) == s.decodeError


\* Every row the store hands out from a fresh handle until Next returns false,
\* as pgx's CopyFrom reads its row source, and the handle it leaves.
RECURSIVE ReplayFrom(_, _, _)
ReplayFrom(s, f, rows) ==
    LET r == StoreNext(s, f) IN
    IF r.ok THEN ReplayFrom(r.st, f, Append(rows, Values(r.st)))
    ELSE [st |-> r.st, rows |-> rows]

\* ------------------------------------------------------------- pg: tables
Ids(tab) == {r.id : r \in tab}

Row(i, t) == [id |-> i, ts |-> t.wall]

SetMax(S) == CHOOSE m \in S : \A x \in S : x <= m

\* Variant: the greatest identifier itself is returned.
GetNextId_Max(tab) == IF tab = {} THEN 1 ELSE SetMax(Ids(tab))

\* GetNextId's query: select coalesce(max(id)+1, 1) from happy.stamps
GetNextId(tab) == IF tab = {} THEN 1 ELSE SetMax(Ids(tab)) + 1

\* TruncateTables, committed: both tables are emptied.
TruncateTables(tab) == {}

Range(s) == {s[i] : i \in DOMAIN s}

RowsOf(rows) == {Row(rows[i][1], rows[i][2]) : i \in DOMAIN rows}

\* The copy into happy.store violates its primary key.
CopyConflict(rows, tab) ==
    \/ \E i, j \in DOMAIN rows : i # j /\ rows[i][1] = rows[j][1]
    \/ \E i \in DOMAIN rows : rows[i][1] \in Ids(tab)

\* CopyStore: the outcome of conn.CopyFrom with the store as row source.
\* remoteOk: the remote side did not fail for a reason of its own.  The copy
\* is one statement: it loads every row or none.
CopyStore(f, tab, remoteOk) ==
    LET r == ReplayFrom(NewHandle, f, <<>>) IN
    IF Err(r.st).err # "nil" \/ CopyConflict(r.rows, tab) \/ ~remoteOk
    THEN [ok |-> FALSE, tab |-> tab, st |-> r.st, count |-> 0,
          err |-> IF ~remoteOk THEN "err:remote"
                  ELSE IF Err(r.st).err # "nil" THEN "err:decode" ELSE "err:key"]
    ELSE [ok |-> TRUE, tab |-> tab \cup RowsOf(r.rows), st |-> r.st, count |-> Len(r.rows),
          err |-> "ok"]

\* Compare's query: the rows of happy.store without a row of the same id in
\* happy.stamps (full join ... where s.id is null).
Compare(gt, tab) == {r \in tab : r.id \notin Ids(gt)}

\* The orders in which the server may return a set of rows.
Orderings(S) ==
    {s \in [1..Cardinality(S) -> S] : Range(s) = S}

\* ---------------------------------------------------------- pg: connection
OpenConn == [closed |-> FALSE, tx |-> "idle"]

\* Variant: the close is not deferred.
CloseAll_None(cs) == cs

\* The deferred db.CloseWithTimeout calls, run when the command returns.
CloseAll(cs) == [i \in DOMAIN cs |-> [cs[i] EXCEPT !.closed = TRUE]]

\* InsertData(ctx, d, timeout, id, ts): what can happen on connection c with
\* table tab.
\*   "begin"     Begin failed; pgx gives the connection up (it is closed)
\*   "exec"      the insert was refused by the server; cancel() has run, so
\*               insCtx.Err() is not nil and the rollback is skipped: the
\*               transaction stays open, aborted
\*   "execlost"  the insert failed with the connection (timeout, lost)
\*   "commit"    Commit failed, the server rolled back
\*   "commitlost" Commit failed with the connection
\*   "ok"        committed
InsertOutcomes(c, i, tab) ==
    IF c.closed \/ c.tx # "idle" THEN {"begin"}
    ELSE {"begin", "exec", "execlost", "commit", "commitlost"}
         \cup (IF i \in Ids(tab) THEN {} ELSE {"ok"})

\* What happens when nothing fails on the remote side: the insert commits,
\* unless the connection is closed or still in a transaction (Begin fails) or
\* the identifier is already a row of the table (the server refuses it).
HealthyOutcome(c, i, tab) ==
    IF c.closed \/ c.tx # "idle" THEN "begin"
    ELSE IF i \in Ids(tab) THEN "exec" ELSE "ok"

\* Variant: a failed Begin leaves the connection open.
InsertConn_BeginKeeps(c, o) ==
    CASE o \in {"execlost", "commitlost"} -> [c EXCEPT !.closed = TRUE]
      [] o = "exec" -> [c EXCEPT !.tx = "aborted"]
      [] OTHER -> c

\* The connection after InsertData with outcome o.
InsertConn(c, o) ==
    CASE o \in {"begin", "execlost", "commitlost"} -> [c EXCEPT !.closed = TRUE]
      [] o = "exec" -> [c EXCEPT !.tx = "aborted"]
      [] OTHER -> c

InsertTable(tab, i, t, o) == IF o = "ok" THEN tab \cup {Row(i, t)} ELSE tab


\* ------------------------------------------------------------ cmd: loadDB
\* No signal has been delivered to sigC.  When one is, sigAt keeps where the
\* loop stood and what it had written and handed to InsertData by then.
NoSig == [pc |-> "none", file |-> <<>>, attempted |-> {}]

Idle == cmd = "none" \/ pc = "done"

LogRoom == Len(file) + 5 <= 5 * MaxLog

\* The function returns: its deferred calls close every connection it opened.
Return(res) ==
    /\ pc' = "done"
    /\ result' = res
    /\ conns' = CloseAll(conns)

\* The step that follows a connection in hand: the identifier is resolved on
\* the first pass (id == 0), then the record is generated.
AfterConnect(i) == IF i = 0 THEN "resolve" ELSE "append"

\* Variant: the file is opened before the options are looked at.
OpenedFile_First(f, truncate, valid) == NewStore(f, truncate)

\* The file after loadDB's first part: NewStore is called only once both
\* durations have parsed and Size > 0 has been checked.
OpenedFile(f, truncate, valid) == IF valid THEN NewStore(f, truncate) ELSE f

\* loadDB up to the main loop.  valid: both durations parse and Size > 0;
\* otherwise it returns an error before NewStore is called.
StartLoad(truncate, valid) ==
    /\ Idle
    /\ runs < MaxRuns
    /\ truncate \/ GetNextId(stamps) <= MaxId
    /\ runs' = runs + 1
    /\ cmd' = "load"
    /\ Truncate' = truncate
    /\ id' = 0
    /\ ts' = ZeroTime
    /\ connected' = FALSE
    /\ db' = 0
    /\ conns' = <<>>
    /\ sig' = FALSE
    /\ sigAt' = NoSig
    /\ baseCancelled' = FALSE
    /\ diff' = <<>>
    /\ attempted' = {}
    /\ uncommitted' = {}
    /\ stamps0' = stamps
    /\ cmpTab0' = cmpTab
    /\ st' = NewHandle
    /\ IF valid
       THEN /\ file' = OpenedFile(file, truncate, valid)
            /\ logStart' = Len(file')
            /\ pc' = "poll"
            /\ result' = "none"
       ELSE /\ file' = OpenedFile(file, truncate, valid)
            /\ logStart' = Len(file')
            /\ pc' = "done"
            /\ result' = "err:options"
    /\ UNCHANGED <<yielded, entries, phase, stamps, cmpTab, NoLoad, healthy>>

\* The failover is over: from now on connections are made and the server
\* takes what it is sent.
Heal ==
    /\ ~healthy
    /\ healthy' = TRUE
    /\ UNCHANGED <<storeVars, remoteVars, cmd, pc, result, Truncate, NoLoad, id, ts,
                   connected, db, conns, sig, sigAt, baseCancelled, diff, runs,
                   logStart, stamps0, cmpTab0, attempted, uncommitted>>

\* A SIGINT or SIGTERM is delivered while the loop runs: it waits in sigC.
RaiseSignal ==
    /\ cmd = "load"
    /\ pc # "done"
    /\ ~sig
    /\ sig' = TRUE
    /\ sigAt' = [pc |-> pc, file |-> file, attempted |-> attempted]
    /\ UNCHANGED <<storeVars, remoteVars, cmd, pc, result, Truncate, NoLoad, id, ts,
                   connected, db, conns, baseCancelled, diff, runs, healthy, logStart,
                   stamps0, cmpTab0, attempted, uncommitted>>

\* The select at the top of the loop: with a signal waiting, baseCancel() and
\* break, and the function returns nil; otherwise the iteration goes on.
Poll ==
    /\ cmd = "load"
    /\ pc = "poll"
    /\ IF sig
       THEN /\ sig' = FALSE
            /\ baseCancelled' = TRUE
            /\ Return("ok")
            /\ UNCHANGED sigAt
       ELSE /\ id <= MaxId
            /\ LogRoom
            /\ connected \/ Len(conns) < MaxConns
            /\ pc' = IF ~connected THEN "connect" ELSE AfterConnect(id)
            /\ UNCHANGED <<sig, sigAt, baseCancelled, result, conns>>
    /\ UNCHANGED <<storeVars, remoteVars, cmd, Truncate, NoLoad, id, ts, connected,
                   db, diff, runs, healthy, logStart, stamps0, cmpTab0, attempted, uncommitted>>

\* pg.NewDB in the loop.  ok: the connection is made.  On a failure,
\* ctx.Err() is context.Canceled only when baseCtx has been cancelled.
Connect(ok) ==
    /\ cmd = "load"
    /\ pc = "connect"
    /\ healthy => ok
    /\ IF ok
       THEN /\ conns' = Append(conns, OpenConn)
            /\ db' = Len(conns) + 1
            /\ connected' = TRUE
            /\ pc' = AfterConnect(id)
            /\ UNCHANGED result
       ELSE /\ db' = 0
            /\ UNCHANGED connected
            /\ IF baseCancelled
               THEN Return("ok")
               ELSE /\ pc' = "poll"
                    /\ UNCHANGED <<result, conns>>
    /\ UNCHANGED <<storeVars, remoteVars, cmd, Truncate, NoLoad, id, ts, sig, sigAt,
                   baseCancelled, diff, runs, healthy, logStart, stamps0, cmpTab0,
                   attempted, uncommitted>>

\* Variant: any failure makes the loop reconnect.
StillConnected_Never(c) == FALSE

\* if db.Conn.IsClosed() { connected = false }: connected stays true unless
\* the connection is reported closed.
StillConnected(c) == ~c.closed

\* The connection after a failed remote call that did or did not lose it.
AfterFailure(c, lost) == IF lost THEN [c EXCEPT !.closed = TRUE] ELSE c

\* The id == 0 block.  With Truncate: TruncateTables, then id = 1 whatever it
\* returned.  Without: GetNextId, which returns 0 with an error.  On an
\* error the iteration is given up (connected = false if the connection is
\* closed).  ok: the remote call succeeded; lost: its failure closed the
\* connection.
Resolve(ok, lost) ==
    /\ cmd = "load"
    /\ pc = "resolve"
    /\ healthy => ok
    /\ id' = IF Truncate THEN 1 ELSE IF ok THEN GetNextId(stamps) ELSE 0
    /\ IF ok
       THEN /\ stamps' = IF Truncate THEN TruncateTables(stamps) ELSE stamps
            /\ cmpTab' = IF Truncate THEN TruncateTables(cmpTab) ELSE cmpTab
            /\ pc' = "append"
            /\ UNCHANGED <<conns, connected>>
       ELSE /\ conns' = [conns EXCEPT ![db] = AfterFailure(conns[db], lost)]
            /\ connected' = StillConnected(conns'[db])
            /\ pc' = "poll"
            /\ UNCHANGED remoteVars
    /\ UNCHANGED <<storeVars, cmd, result, Truncate, NoLoad, ts, db, sig, sigAt, baseCancelled,
                   diff, runs, healthy, logStart, stamps0, cmpTab0, attempted, uncommitted>>

\* ts := time.Now(); st.Append(id, ts).  n: the tokens the write put in the
\* file; fewer than the whole encoding means Append returned an error, and
\* loadDB returns it.
AppendStep(w, n) ==
    /\ cmd = "load"
    /\ pc = "append"
    /\ ts' = Now(w)
    /\ file' = StoreAppend(file, id, Now(w), n)
    /\ IF AppendFailed(id, Now(w), n)
       THEN Return("err:append")
       ELSE /\ pc' = "insert"
            /\ UNCHANGED <<result, conns>>
    /\ UNCHANGED <<st, yielded, entries, phase, remoteVars, cmd, Truncate, NoLoad, id,
                   connected, db, sig, sigAt, baseCancelled, diff, runs, healthy, logStart, stamps0,
                   cmpTab0, attempted, uncommitted>>

\* Variant: the identifier is kept for a retry when the insert failed.
NextIdAfter_OnSuccess(i, o) == IF o = "ok" THEN i + 1 ELSE i

\* id++ after InsertData, whatever its outcome o was.
NextIdAfter(i, o) == i + 1

\* Variant: the next iteration starts after the select.
AfterInsert_NoSelect(o) == "append"

\* Variant: an error of InsertData ends the loop.
AfterInsert_Fatal(o) == IF o = "ok" THEN "poll" ELSE "done"

\* After InsertData: its error is logged, never returned; the loop sleeps and
\* starts its next iteration at the select.
AfterInsert(o) == "poll"

\* pg.InsertData, the forced reconnection, id++ and the pause.
InsertStep(o) ==
    /\ cmd = "load"
    /\ pc = "insert"
    /\ o \in InsertOutcomes(conns[db], id, stamps)
    /\ healthy => o = HealthyOutcome(conns[db], id, stamps)
    /\ attempted' = attempted \cup {id}
    /\ uncommitted' = IF o = "ok" THEN uncommitted ELSE uncommitted \cup {id}
    /\ stamps' = InsertTable(stamps, id, ts, o)
    /\ conns' = [conns EXCEPT ![db] = InsertConn(conns[db], o)]
    /\ connected' = StillConnected(conns'[db])
    /\ id' = NextIdAfter(id, o)
    /\ pc' = AfterInsert(o)
    /\ UNCHANGED <<storeVars, cmpTab, cmd, result, Truncate, NoLoad, ts, db, sig, sigAt,
                   baseCancelled, diff, runs, healthy, logStart, stamps0, cmpTab0>>


\* --------------------------------------------------------- cmd: compareDB
\* compareDB up to the connection: NewStore(LocalStore, false).
StartCompare(noLoad) ==
    /\ Idle
    /\ runs < MaxRuns
    /\ runs' = runs + 1
    /\ cmd' = "compare"
    /\ NoLoad' = noLoad
    /\ file' = NewStore(file, FALSE)
    /\ logStart' = Len(file)
    /\ st' = NewHandle
    /\ pc' = "c_connect"
    /\ result' = "none"
    /\ id' = 0
    /\ ts' = ZeroTime
    /\ connected' = FALSE
    /\ db' = 0
    /\ conns' = <<>>
    /\ sig' = FALSE
    /\ sigAt' = NoSig
    /\ baseCancelled' = FALSE
    /\ diff' = <<>>
    /\ attempted' = {}
    /\ UNCHANGED uncommitted
    /\ stamps0' = stamps
    /\ cmpTab0' = cmpTab
    /\ UNCHANGED <<yielded, entries, phase, stamps, cmpTab, Truncate, healthy>>

\* Variant: --no-load is not looked at.
AfterCompareConnect_Load(noLoad) == "c_copy"

\* if !NoLoad { CopyStore }: with --no-load the bulk load is skipped.
AfterCompareConnect(noLoad) == IF noLoad THEN "c_query" ELSE "c_copy"

\* pg.NewDB in compareDB: a failure is returned.
CompareConnect(ok) ==
    /\ cmd = "compare"
    /\ pc = "c_connect"
    /\ IF ok
       THEN /\ conns' = Append(conns, OpenConn)
            /\ db' = 1
            /\ pc' = AfterCompareConnect(NoLoad)
            /\ UNCHANGED result
       ELSE /\ db' = 0
            /\ Return("err:connect")
    /\ UNCHANGED <<storeVars, remoteVars, cmd, Truncate, NoLoad, id, ts, connected, sig, sigAt,
                   baseCancelled, diff, runs, healthy, logStart, stamps0, cmpTab0,
                   attempted, uncommitted>>

\* if !NoLoad: pg.CopyStore(ctx, db, st); its error is returned.
CompareCopy(remoteOk) ==
    /\ cmd = "compare"
    /\ pc = "c_copy"
    /\ LET r == CopyStore(file, cmpTab, remoteOk) IN
       /\ st' = r.st
       /\ cmpTab' = r.tab
       /\ IF r.ok
          THEN /\ pc' = "c_query"
               /\ UNCHANGED <<result, conns>>
          ELSE Return(r.err)
    /\ UNCHANGED <<file, yielded, entries, phase, stamps, cmd, Truncate, NoLoad, id, ts,
                   connected, db, sig, sigAt, baseCancelled, diff, runs, healthy, logStart, stamps0,
                   cmpTab0, attempted, uncommitted>>

\* pg.Compare(ctx, db) and the report; the rows come in the server's order.
CompareQuery(remoteOk) ==
    /\ cmd = "compare"
    /\ pc = "c_query"
    /\ IF remoteOk
       THEN /\ diff' \in Orderings(Compare(stamps, cmpTab))
            /\ Return("ok")
       ELSE /\ diff' = <<>>
            /\ Return("err:remote")
    /\ UNCHANGED <<storeVars, remoteVars, cmd, Truncate, NoLoad, id, ts, connected, db,
                   sig, sigAt, baseCancelled, runs, healthy, logStart, stamps0, cmpTab0,
                   attempted, uncommitted>>

\* ------------------------------------------------- the commands, in a row
Init ==
    /\ file = <<>>
    /\ st = NewHandle
    /\ yielded = <<>>
    /\ entries = <<>>
    /\ phase = "off"
    /\ stamps = {}
    /\ cmpTab = {}
    /\ cmd = "none"
    /\ pc = "idle"
    /\ result = "none"
    /\ Truncate = FALSE
    /\ NoLoad = FALSE
    /\ id = 0
    /\ ts = ZeroTime
    /\ connected = FALSE
    /\ db = 0
    /\ conns = <<>>
    /\ sig = FALSE
    /\ sigAt = NoSig
    /\ baseCancelled = FALSE
    /\ diff = <<>>
    /\ runs = 0
    /\ healthy = FALSE
    /\ logStart = 0
    /\ stamps0 = {}
    /\ cmpTab0 = {}
    /\ attempted = {}
    /\ uncommitted = {}

Next ==
    \/ \E t \in BOOLEAN, v \in BOOLEAN : StartLoad(t, v)
    \/ RaiseSignal
    \/ Heal
    \/ Poll
    \/ \E ok \in BOOLEAN : Connect(ok)
    \/ \E ok \in BOOLEAN, lost \in BOOLEAN : Resolve(ok, lost)
    \/ \E w \in 1..MaxTs, n \in 0..Len(Encode(ZeroData)) : AppendStep(w, n)
    \/ \E o \in {"begin", "exec", "execlost", "commit", "commitlost", "ok"} : InsertStep(o)
    \/ \E n \in BOOLEAN : StartCompare(n)
    \/ \E ok \in BOOLEAN : CompareConnect(ok)
    \/ \E ok \in BOOLEAN : CompareCopy(ok)
    \/ \E ok \in BOOLEAN : CompareQuery(ok)

Spec == Init /\ [][Next]_vars

\* Every step of the loop ends: pg.NewDB and each remote call run under a
\* context with the timeout, the write to the file is local, the pause is a
\* fixed time.Sleep.  Nothing makes a signal, the end of the failover or the
\* start of a command happen.
LoopStep ==
    \/ Poll
    \/ \E ok \in BOOLEAN : Connect(ok)
    \/ \E ok \in BOOLEAN, lost \in BOOLEAN : Resolve(ok, lost)
    \/ \E w \in 1..MaxTs, n \in 0..Len(Encode(ZeroData)) : AppendStep(w, n)
    \/ \E o \in {"begin", "exec", "execlost", "commit", "commitlost", "ok"} : InsertStep(o)

SpecFair == Init /\ [][Next]_vars /\ WF_vars(LoopStep)


\* ------------------------------------------------- the store, on its own
\* A file is written through Store.Append (whole writes, writes cut short) and
\* may be damaged from outside; then a fresh handle replays it the way the
\* row source of CopyStore is read: Next until it returns false, Values after
\* each true, Err at the end.

\* A line that is complete and is not a record: { garbage } \n
Junk == << <<"lb", 0>>, <<"bad", 0>>, <<"rb", 0>>, <<"nl", 0>> >>

InitStore ==
    /\ file = <<>>
    /\ st = NewHandle
    /\ yielded = <<>>
    /\ entries = <<>>
    /\ phase = "write"
    /\ stamps = {}
    /\ cmpTab = {}
    /\ cmd = "none"
    /\ pc = "idle"
    /\ result = "none"
    /\ Truncate = FALSE
    /\ NoLoad = FALSE
    /\ id = 0
    /\ ts = ZeroTime
    /\ connected = FALSE
    /\ db = 0
    /\ conns = <<>>
    /\ sig = FALSE
    /\ sigAt = NoSig
    /\ baseCancelled = FALSE
    /\ diff = <<>>
    /\ runs = 0
    /\ healthy = FALSE
    /\ logStart = 0
    /\ stamps0 = {}
    /\ cmpTab0 = {}
    /\ attempted = {}
    /\ uncommitted = {}

\* Store.Append(i, Now(w)) writing n tokens.
HAppend(i, w, n) ==
    /\ phase = "write"
    /\ Len(entries) < StoreLen
    /\ file' = StoreAppend(file, i, Now(w), n)
    /\ entries' = Append(entries,
                         [kind |-> IF AppendFailed(i, Now(w), n) THEN "short" ELSE "rec",
                          toks |-> Prefix(Encode(StoreData(i, Now(w))), n),
                          data |-> StoreData(i, Now(w))])
    /\ UNCHANGED <<st, yielded, phase, remoteVars, procVars>>

\* The file is damaged from outside: a complete line that is no record.
HCorrupt ==
    /\ phase = "write"
    /\ Len(entries) < StoreLen
    /\ file' = file \o Junk
    /\ entries' = Append(entries, [kind |-> "junk", toks |-> Junk, data |-> ZeroData])
    /\ UNCHANGED <<st, yielded, phase, remoteVars, procVars>>

\* NewStore(path, false) by the reader: a fresh handle on the file as it is.
HOpen ==
    /\ phase = "write"
    /\ phase' = "read"
    /\ file' = NewStore(file, FALSE)
    /\ st' = NewHandle
    /\ yielded' = <<>>
    /\ UNCHANGED <<entries, remoteVars, procVars>>

\* One turn of the reader's loop: Next, and Values when it returned true.
HNext ==
    /\ phase = "read"
    /\ LET r == StoreNext(st, file) IN
       /\ st' = r.st
       /\ yielded' = IF r.ok THEN Append(yielded, Values(r.st)) ELSE yielded
       /\ phase' = IF r.ok THEN "read" ELSE "done"
    /\ UNCHANGED <<file, entries, remoteVars, procVars>>

\* The bulk load ends: CopyStore's outcome on this file, into an empty table.
HCopyEnd ==
    /\ phase = "done"
    /\ result = "none"
    /\ LET r == CopyStore(file, cmpTab, TRUE) IN
       /\ cmpTab' = r.tab
       /\ result' = r.err
    /\ UNCHANGED <<storeVars, stamps, cmd, pc, Truncate, NoLoad, id, ts, connected, db,
                   conns, sig, sigAt, baseCancelled, diff, runs, healthy, logStart, stamps0, cmpTab0,
                   attempted, uncommitted>>

NextStore ==
    \/ \E i \in 1..StoreIds, w \in 1..StoreTs, n \in 0..Len(Encode(ZeroData)) : HAppend(i, w, n)
    \/ HCorrupt
    \/ HOpen
    \/ HNext
    \/ HCopyEnd

SpecStore == InitStore /\ [][NextStore]_vars


\* ================================================================ claims
\* What the running command has written to the file since it opened it, and
\* the records a replay finds there.
RunPart == SubSeq(file, logStart + 1, Len(file))

RunReplay == ReplayFrom(NewHandle, RunPart, <<>>)

RunIdSeq == [k \in DOMAIN RunReplay.rows |-> RunReplay.rows[k][1]]

RunIds == Range(RunIdSeq)

\* What the file held when the running command opened it.
PrevIds == {r[1] : r \in Range(ReplayFrom(NewHandle, Prefix(file, logStart), <<>>).rows)}

\* The main loop was entered (the options were valid).
LoopStarted == cmd = "load" /\ result # "err:options"

\* C1 - local durability precedes the remote attempt: every identifier the
\* running load has handed to InsertData is a record of the local file
\* written by this run, every row the run added to happy.stamps was handed to
\* InsertData, and after a failed Append the identifier it was writing is never
\* handed to InsertData.
C1_LocalBeforeRemote ==
    cmd = "load" =>
        /\ attempted \subseteq RunIds
        /\ Ids(stamps \ stamps0) \subseteq attempted
        /\ (result = "err:append" => id \notin attempted)

\* C1: a run with a failed and a committed insert behind it.
C1_Witness ==
    /\ cmd = "load"
    /\ Cardinality(attempted) >= 2
    /\ stamps \ stamps0 # {}
    /\ attempted \ Ids(stamps) # {}

\* C2 - identifier monotonicity: once the identifier is set, the records the
\* run has appended carry consecutive identifiers, and the identifier in hand
\* is the one just appended (before the insert) or its successor (after it),
\* whether inserts failed or connections were replaced.
C2_Monotonic ==
    (LoopStarted /\ id # 0) =>
        /\ \A k \in DOMAIN RunIdSeq : k > 1 => RunIdSeq[k] = RunIdSeq[k - 1] + 1
        /\ (RunIdSeq # <<>> /\ result # "err:append") =>
               id = RunIdSeq[Len(RunIdSeq)] + (IF pc = "insert" THEN 0 ELSE 1)
        /\ attempted \subseteq RunIds

\* C2: two records appended, an insert failed, the connection was replaced.
C2_Witness ==
    /\ LoopStarted
    /\ Len(RunIdSeq) >= 2
    /\ attempted \ Ids(stamps) # {}
    /\ Len(conns) >= 2
    /\ pc = "insert"


\* The records a replay of the whole file finds.
FileReplay == ReplayFrom(NewHandle, file, <<>>)

FileRows == FileReplay.rows

\* Every write to the file was a whole record: the file is whole lines only.
WholeFile ==
    /\ FileReplay.st.decErr = "eof"
    /\ Len(file) = Len(Encode(ZeroData)) * Len(FileRows)

\* C3 - reconciliation correctness: a comparison with bulk load that the
\* remote side did not fail, on a file of whole records, returns nil and
\* reports exactly the records of the file whose identifier is not in
\* happy.stamps.
C3_ReconciliationExact ==
    (/\ cmd = "compare"
     /\ ~NoLoad
     /\ pc = "done"
     /\ WholeFile
     /\ result \notin {"err:connect", "err:remote"}) =>
        /\ result = "ok"
        /\ Range(diff) = {r \in RowsOf(FileRows) : r.id \notin Ids(stamps)}

\* C4 - resume without identifier reuse: no identifier a load without
\* --truncate appends is already a record of the file as it found it (a file
\* of whole records, left by earlier runs).
C4_NoReuse ==
    (LoopStarted /\ ~Truncate /\ WholeFile) => RunIds \cap PrevIds = {}

\* C5 - resume semantics: without --truncate the first record appended carries
\* max(id)+1 of happy.stamps as the run found it (1 if it was empty), whatever
\* failed before; while the identifier is 0 nothing has been written.
C5_Resume ==
    (LoopStarted /\ ~Truncate) =>
        /\ (id = 0 => RunPart = <<>> /\ attempted = {})
        /\ (RunIdSeq # <<>> =>
               IF stamps0 = {} THEN RunIdSeq[1] = 1
               ELSE \E m \in Ids(stamps0) :
                       /\ \A x \in Ids(stamps0) : x <= m
                       /\ RunIdSeq[1] = m + 1)

\* C5: the first record of a resumed run, written on the second connection
\* (the first was lost by a failed next-id query), over a non-empty table.
C5_Witness ==
    /\ LoopStarted
    /\ ~Truncate
    /\ stamps0 # {}
    /\ pc = "insert"
    /\ Len(RunIdSeq) = 1
    /\ Len(conns) = 2

\* C6 - reset semantics: with --truncate the file is empty when the loop
\* starts and the records appended carry 1, 2, 3, ... in this order.
C6_Reset ==
    (LoopStarted /\ Truncate) =>
        /\ logStart = 0
        /\ \A k \in DOMAIN RunIdSeq : RunIdSeq[k] = k
        /\ (pc = "append" => id = Len(RunIdSeq) + 1)

\* C6: records 1 and 2 appended while happy.stamps still holds rows 1 and 2 of
\* an earlier run (the truncation failed; only 1 was handed to InsertData).
C6_Witness ==
    /\ LoopStarted
    /\ Truncate
    /\ RunIdSeq = <<1, 2>>
    /\ attempted = {1}
    /\ Ids(stamps) = {1, 2}

\* C10 - clean cancellation: once the signal has been seen at the top of the
\* loop the function has returned nil, every connection the run opened is
\* closed, the run's part of the file is whole records only, and each of them
\* was handed to InsertData (the loop stopped between two cycles).
C10_CleanCancel ==
    (cmd = "load" /\ baseCancelled) =>
        /\ pc = "done"
        /\ result = "ok"
        /\ \A k \in DOMAIN conns : conns[k].closed
        /\ RunReplay.st.decErr = "eof"
        /\ Len(RunPart) = Len(Encode(ZeroData)) * Len(RunIdSeq)
        /\ attempted = RunIds

\* C10: cancelled after two records and two connections.
C10_Witness ==
    /\ cmd = "load"
    /\ baseCancelled
    /\ Len(conns) >= 2
    /\ Len(RunIdSeq) >= 2

\* ------------------------------------------------------ the store's claims
RECURSIVE Concat(_, _)
Concat(es, k) == IF k = 0 THEN <<>> ELSE Concat(es, k - 1) \o es[k].toks

AllRec(n) == \A k \in 1..n : entries[k].kind = "rec"

\* The first n rows handed out are the first n records written: same
\* identifier, same instant.
YieldedMatches(n) ==
    \A k \in 1..n :
        /\ yielded[k][1] = entries[k].data.Id
        /\ yielded[k][2].wall = entries[k].data.Ts.wall

\* C7 - append/replay round trip: the file is the writes in their order (an
\* append leaves what was there), and a fresh handle on a file of whole
\* records hands out exactly these records in order, then ends without error.
C7_RoundTrip ==
    /\ file = Concat(entries, Len(entries))
    /\ (phase \in {"read", "done"} /\ AllRec(Len(entries))) =>
           /\ Len(yielded) <= Len(entries)
           /\ YieldedMatches(Len(yielded))
           /\ st.count = Len(yielded)
           /\ Err(st).err = "nil"
           /\ (phase = "done" => Len(yielded) = Len(entries) /\ st.decErr = "eof")

\* C7: three records replayed to the end, not in identifier order.
C7_Witness ==
    /\ phase = "done"
    /\ Len(entries) >= 3
    /\ AllRec(Len(entries))
    /\ entries[1].data.Id > entries[2].data.Id
    /\ entries[1].data.Ts.wall # entries[2].data.Ts.wall

\* The file ends with a write cut short inside the object, after whole records.
TailCut ==
    /\ Len(entries) >= 2
    /\ AllRec(Len(entries) - 1)
    /\ entries[Len(entries)].kind = "short"
    /\ Len(entries[Len(entries)].toks) \in 1..3

\* C8 - truncated-tail tolerance: on a file that ends with a cut-off entry the
\* replay hands out the whole records before it and ends with Err() nil, and
\* the bulk load succeeds.
C8_TruncatedTail ==
    (phase = "done" /\ TailCut) =>
        /\ Len(yielded) = Len(entries) - 1
        /\ YieldedMatches(Len(yielded))
        /\ Err(st).err = "nil"
        /\ (result # "none" => result = "ok")

\* Entry j is malformed and not a cut-off tail: a complete line that is no
\* record, or a cut-off write with something written after it.
BadAt(j) ==
    \/ entries[j].kind = "junk"
    \/ /\ entries[j].kind = "short"
       /\ Len(entries[j].toks) \in 1..3
       /\ \E m \in (j + 1)..Len(entries) : entries[m].toks # <<>>

\* C9 - malformed-entry fatality: with whole records at 1..k and a malformed
\* entry at k+1, the replay hands out exactly the k records, then stops with a
\* decode error that carries k, and the bulk load fails with it and loads
\* nothing.
C9_MalformedFatal ==
    \A j \in DOMAIN entries :
        (AllRec(j - 1) /\ BadAt(j) /\ phase \in {"read", "done"}) =>
            /\ Len(yielded) <= j - 1
            /\ YieldedMatches(Len(yielded))
            /\ (phase = "done" =>
                   /\ Len(yielded) = j - 1
                   /\ Err(st).err # "nil"
                   /\ Err(st).count = j - 1)
            /\ (result # "none" => result = "err:decode" /\ cmpTab = {})

\* C9: a malformed entry between two whole records, the bulk load refused.
C9_Witness ==
    /\ phase = "done"
    /\ result = "err:decode"
    /\ Len(entries) >= 3
    /\ entries[1].kind = "rec"
    /\ BadAt(2)
    /\ entries[3].kind = "rec"

\* ------------------------------------------------- the loop's later claims
\* C11 - termination causes: a load that has returned was refused at its
\* options, or was cancelled at the select and returned nil, or returned the
\* error of a failed Append; no step on the remote side (connect, truncate,
\* next-id query, insert) ends the loop, whatever its outcome; and the step
\* after the Append is the insert when the whole record was written and the
\* return of the error otherwise.
C11_TerminationCauses ==
    /\ []((cmd = "load" /\ pc = "done") =>
             \/ result = "err:options"
             \/ result = "ok" /\ baseCancelled
             \/ result = "err:append")
    /\ [][(cmd = "load" /\ pc \in {"connect", "resolve", "insert"}) =>
             (pc' # "done" /\ result' = "none")]_vars
    /\ [][(cmd = "load" /\ pc = "append" /\ pc' # "append") =>
             IF file' = file \o Encode(StoreData(id, ts'))
             THEN pc' = "insert" /\ result' = "none"
             ELSE pc' = "done" /\ result' = "err:append"]_vars

\* C11: the loop ran until it was cancelled although an insert was refused
\* (its transaction left aborted), another did not commit and a connection
\* was lost and replaced.
C11_Witness ==
    /\ cmd = "load"
    /\ pc = "done"
    /\ result = "ok"
    /\ Len(conns) = 2
    /\ \E k \in DOMAIN conns : conns[k].tx = "aborted"
    /\ Cardinality(attempted \ Ids(stamps)) >= 2

\* No two records of the file carry the same identifier.
DistinctIds == Cardinality(Ids(RowsOf(FileRows))) = Len(FileRows)

\* C12 - reconciliation is idempotent: a comparison with bulk load started
\* when happy.store holds the rows an earlier comparison loaded from this very
\* file (whole records, no identifier twice), and that the remote side did
\* not fail, returns nil and reports what a run on an empty happy.store
\* reports.
C12_Idempotent ==
    (/\ cmd = "compare"
     /\ ~NoLoad
     /\ pc = "done"
     /\ WholeFile
     /\ DistinctIds
     /\ FileRows # <<>>
     /\ cmpTab0 = RowsOf(FileRows)
     /\ result \notin {"err:connect", "err:remote"}) =>
        /\ result = "ok"
        /\ Range(diff) = Compare(stamps, RowsOf(FileRows))

\* C13 - cancellation during connect: after a signal delivered while pg.NewDB
\* was in flight, the loop writes no record to the file and hands none to
\* InsertData, from the delivery on and after it has returned (a run ended by
\* a failed Append aside).
C13_CancelDuringConnect ==
    (cmd = "load" /\ sigAt.pc = "connect" /\ result # "err:append") =>
        /\ file = sigAt.file
        /\ attempted = sigAt.attempted

\* C14 - transaction scoping: at the start of every iteration (the select at
\* the top of the loop) the connection the loop holds has no open transaction.
C14_NoOpenTransaction ==
    (cmd = "load" /\ pc = "poll" /\ connected) => conns[db].tx = "idle"

\* C15 - a failed connect or a failed identifier step has no generation
\* effect: the step writes nothing to the file, hands nothing to InsertData,
\* leaves happy.stamps alone and sends the loop back to the select; a failed
\* connect leaves id and connected as they were, a failed next-id query leaves
\* id at 0, and after a failed identifier step connected is false exactly when
\* the connection is closed.
C15_FailedStepFrame ==
    [][/\ (cmd = "load" /\ pc = "connect" /\ pc' # "connect" /\ ~connected') =>
              /\ pc' = "poll"
              /\ file' = file
              /\ attempted' = attempted
              /\ stamps' = stamps
              /\ id' = id
              /\ connected' = connected
       /\ (cmd = "load" /\ pc = "resolve" /\ pc' \notin {"resolve", "append"}) =>
              /\ pc' = "poll"
              /\ file' = file
              /\ attempted' = attempted
              /\ stamps' = stamps
              /\ (~Truncate => id' = 0)
              /\ (connected' <=> ~conns'[db].closed)]_vars

\* C15: the next-id query failed twice, once with the connection (which was
\* replaced) and once on a connection that stayed open; nothing was written.
C15_Witness ==
    /\ cmd = "load"
    /\ ~Truncate
    /\ pc = "poll"
    /\ id = 0
    /\ Len(conns) = 2
    /\ conns[1].closed
    /\ connected
    /\ RunPart = <<>>

\* C16 - noLoad mode: a comparison with --no-load never reaches the bulk
\* load, leaves happy.store as it found it, reads nothing from the file (the
\* handle stays as NewStore returned it), and when it returns nil it has
\* reported the rows of that happy.store whose identifier is not in
\* happy.stamps.
C16_NoLoad ==
    (cmd = "compare" /\ NoLoad) =>
        /\ pc # "c_copy"
        /\ cmpTab = cmpTab0
        /\ st = NewHandle
        /\ file = Prefix(file, logStart)
        /\ (pc = "done" /\ result = "ok") =>
               Range(diff) = {r \in cmpTab0 : r.id \notin Ids(stamps)}
        /\ (pc = "done" => result \in {"ok", "err:connect", "err:remote"})

\* C16: a --no-load comparison reported a missing row out of a happy.store
\* that an earlier comparison had loaded from the file.
C16_Witness ==
    /\ cmd = "compare"
    /\ NoLoad
    /\ pc = "done"
    /\ result = "ok"
    /\ diff # <<>>
    /\ cmpTab0 = RowsOf(FileRows)

\* C17 - validation fails fast: a load refused at its options has returned
\* the error with the file left exactly as it was (also with --truncate),
\* both tables untouched, no connection opened, no identifier set and nothing
\* handed to InsertData.
C17_ValidationFailsFast ==
    /\ []((cmd = "load" /\ result = "err:options") =>
             /\ pc = "done"
             /\ conns = <<>>
             /\ ~connected
             /\ id = 0
             /\ attempted = {}
             /\ RunPart = <<>>)
    /\ [][(cmd' = "load" /\ result' = "err:options" /\ runs' # runs) =>
             /\ file' = file
             /\ stamps' = stamps
             /\ cmpTab' = cmpTab]_vars

\* C17: a load with --truncate was refused at its options over a file and a
\* table that hold records.
C17_Witness ==
    /\ cmd = "load"
    /\ result = "err:options"
    /\ Truncate
    /\ FileRows # <<>>
    /\ stamps # {}

\* The select of the loop waits for room in the model's bounds.
AtBound ==
    /\ pc = "poll"
    /\ ~sig
    /\ id > MaxId \/ ~LogRoom \/ (~connected /\ Len(conns) >= MaxConns)

\* C20 - stop liveness: once a signal waits in sigC the running load returns,
\* whatever the remote side does; and from the delivery of the signal on, at
\* most one record is written to the file.
C20_StopLiveness ==
    /\ (cmd = "load" /\ sig) ~> (cmd = "load" /\ pc = "done")
    /\ []((cmd = "load" /\ sigAt.pc # "none") =>
             /\ Len(file) <= Len(sigAt.file) + Len(Encode(ZeroData))
             /\ Cardinality(attempted \ sigAt.attempted) <= 1)

\* C20: the loop was stopped by a signal delivered while it was connecting,
\* after one more record, over a remote side that never took an insert.
C20_Witness ==
    /\ cmd = "load"
    /\ pc = "done"
    /\ result = "ok"
    /\ sigAt.pc = "connect"
    /\ Len(file) = Len(sigAt.file) + Len(Encode(ZeroData))
    /\ stamps = stamps0
    /\ Len(conns) = 2

\* The loop is back at the select after an InsertData that did not commit.
LastFailed ==
    /\ pc = "poll"
    /\ id - 1 \in uncommitted

\* The loop is back at the select after an InsertData that committed.
LastCommitted ==
    /\ pc = "poll"
    /\ id - 1 \in attempted \ uncommitted

\* C18 - recovery: the loop never believes itself connected on a closed
\* connection; once the remote side is reachable and takes inserts, an
\* InsertData of an identifier that is not in the table either commits or
\* makes the loop reconnect; and a failed InsertData is then followed by one
\* that commits, unless a signal is delivered, the loop returns (a failed
\* Append) or the select waits at the model's bounds.
C18_Recovery ==
    /\ []((cmd = "load" /\ pc = "poll" /\ connected) => ~conns[db].closed)
    /\ [][(cmd = "load" /\ healthy /\ pc = "insert" /\ pc' # "insert"
              /\ id \notin Ids(stamps)) =>
             (Row(id, ts) \in stamps' \/ ~connected')]_vars
    /\ (cmd = "load" /\ healthy /\ LastFailed) ~>
           \/ cmd = "load" /\ LastCommitted
           \/ sig
           \/ pc = "done"
           \/ AtBound

\* C18: an insert was refused and left its transaction open, the next one
\* failed at Begin, the loop reconnected and the third insert committed.
C18_Witness ==
    /\ cmd = "load"
    /\ healthy
    /\ LastCommitted
    /\ Len(conns) = 2
    /\ conns[1].closed
    /\ conns[1].tx = "aborted"
    /\ Cardinality(attempted) = 3

\* C19 - loss detection is complete: a comparison with bulk load that returned
\* nil reports every identifier that the last load handed to InsertData
\* without a commit.
C19_LossDetection ==
    (cmd = "compare" /\ ~NoLoad /\ pc = "done" /\ result = "ok") =>
        uncommitted \subseteq Ids(Range(diff))

====
